---- MODULE Spec2Model ----
(***************************************************************************)
(* SnapBudget backend (app.py): the receipt parsing loop of upload_image,  *)
(* categorize, the savings tip rules, save_result and the request          *)
(* pipeline.  Text is modelled character by character: a string is a       *)
(* sequence of one-character strings, so that lower(), strip(), the        *)
(* substring tests and the two regular expressions are computed, not       *)
(* assumed.  Prices are floats with at most two decimals in the source;    *)
(* they are kept here as integer hundredths (cents).                       *)
(*                                                                         *)
(* Three specifications share the variables: Spec runs the line loop of    *)
(* one OCR text step by step, SpecCat calls categorize on a name, SpecReq  *)
(* runs two concurrent requests through upload_image.                      *)
(*                                                                         *)
(* Where a computed value is used several times it is bound by a           *)
(* quantifier over a singleton set ({f(x) : x \in {e}}), so that it is     *)
(* computed once.                                                          *)
(***************************************************************************)
EXTENDS Integers, Sequences, FiniteSets, TLC

\* ------------------------------------------------------------------ text

Uppers == <<"A","B","C","D","E","F","G","H","I","J","K","L","M",
            "N","O","P","Q","R","S","T","U","V","W","X","Y","Z">>

Lowers == <<"a","b","c","d","e","f","g","h","i","j","k","l","m",
            "n","o","p","q","r","s","t","u","v","w","x","y","z">>

\* str.lower() on one character
LowerChar(c) ==
    IF \E i \in 1..Len(Uppers) : Uppers[i] = c
    THEN Lowers[CHOOSE i \in 1..Len(Uppers) : Uppers[i] = c]
    ELSE c

\* str.lower()
lower(s) == [i \in 1..Len(s) |-> LowerChar(s[i])]

\* \s of the patterns and the characters str.strip() removes; a line holds
\* no '\n', the text is split at them
IsSpace(c) == c \in {" ", "\t", "\r"}

\* \d
IsDigit(c) == c \in {"0","1","2","3","4","5","6","7","8","9"}

DigitVal(c) ==
    CASE c = "0" -> 0 [] c = "1" -> 1 [] c = "2" -> 2 [] c = "3" -> 3
      [] c = "4" -> 4 [] c = "5" -> 5 [] c = "6" -> 6 [] c = "7" -> 7
      [] c = "8" -> 8 [] c = "9" -> 9

\* str.strip()
strip(s) ==
    LET keep == {i \in 1..Len(s) : ~IsSpace(s[i])}
    IN  IF keep = {} THEN <<>>
        ELSE LET a == CHOOSE i \in keep : \A j \in keep : i <= j
                 b == CHOOSE i \in keep : \A j \in keep : j <= i
             IN  SubSeq(s, a, b)

\* str.lstrip() and str.rstrip(), the two halves of strip()
lstrip(s) ==
    LET keep == {i \in 1..Len(s) : ~IsSpace(s[i])}
    IN  IF keep = {} THEN <<>>
        ELSE SubSeq(s, CHOOSE i \in keep : \A j \in keep : i <= j, Len(s))

rstrip(s) ==
    LET keep == {i \in 1..Len(s) : ~IsSpace(s[i])}
    IN  IF keep = {} THEN <<>>
        ELSE SubSeq(s, 1, CHOOSE i \in keep : \A j \in keep : j <= i)

\* k in s (substring test)
Contains(k, s) ==
    \E i \in 1..(Len(s) - Len(k) + 1) : SubSeq(s, i, i + Len(k) - 1) = k

\* any(k in s for k in words)
AnyIn(words, s) == \E w \in 1..Len(words) : Contains(words[w], s)

\* s.replace(',', '')
RemoveCommas(s) ==
    LET F[i \in 0..Len(s)] ==
            IF i = 0 THEN <<>>
            ELSE IF s[i] = "," THEN F[i-1] ELSE Append(F[i-1], s[i])
    IN  F[Len(s)]

\* ------------------------------------------------------------ categorize

EssentialsKw ==
    << <<"m","i","l","k">>, <<"r","i","c","e">>, <<"d","a","l">>,
       <<"b","r","e","a","d">>, <<"o","i","l">>, <<"e","g","g","s">>,
       <<"v","e","g","e","t","a","b","l","e">>, <<"a","t","t","a">>, <<"f","l","o","u","r">>,
       <<"s","u","g","a","r">>, <<"s","a","l","t">> >>

SnacksKw ==
    << <<"c","h","o","c","o","l","a","t","e">>, <<"b","i","s","c","u","i","t">>, <<"l","a","y","s">>,
       <<"s","n","a","c","k">>, <<"c","h","i","p","s">>, <<"c","o","l","d"," ","d","r","i","n","k">>,
       <<"s","o","d","a">>, <<"c","a","n","d","y">>, <<"c","o","o","k","i","e","s">> >>

ClothingKw ==
    << <<"s","h","i","r","t">>, <<"j","e","a","n","s">>, <<"s","h","o","e">>,
       <<"s","a","n","d","a","l">>, <<"d","r","e","s","s">>, <<"t","r","o","u","s","e","r","s">>,
       <<"j","a","c","k","e","t">>, <<"t","s","h","i","r","t">>, <<"s","o","c","k","s">> >>

ElectronicsKw ==
    << <<"u","s","b">>, <<"c","h","a","r","g","e","r">>, <<"h","e","a","d","p","h","o","n","e">>,
       <<"p","h","o","n","e">>, <<"m","o","u","s","e">>, <<"k","e","y","b","o","a","r","d">>,
       <<"l","a","p","t","o","p">>, <<"t","a","b","l","e","t">>, <<"s","p","e","a","k","e","r">> >>

HealthKw ==
    << <<"m","e","d","i","c","i","n","e">>, <<"p","h","a","r","m","a","c","y">>, <<"p","i","l","l">>,
       <<"b","a","n","d","a","g","e">> >>

DiningOutKw ==
    << <<"r","e","s","t","a","u","r","a","n","t">>, <<"c","a","f","e">>, <<"f","o","o","d">>,
       <<"d","i","n","n","e","r">>, <<"l","u","n","c","h">>, <<"b","r","e","a","k","f","a","s","t">>,
       <<"p","i","z","z","a">>, <<"b","u","r","g","e","r">> >>

TransportKw ==
    << <<"f","u","e","l">>, <<"p","e","t","r","o","l">>, <<"d","i","e","s","e","l">>,
       <<"g","a","s">>, <<"t","r","a","n","s","p","o","r","t">> >>

UtilitiesKw ==
    << <<"e","l","e","c","t","r","i","c","i","t","y">>, <<"w","a","t","e","r">>, <<"i","n","t","e","r","n","e","t">>,
       <<"r","e","n","t">> >>

Categories ==
    {"Essentials", "Snacks", "Clothing", "Electronics", "Health",
     "Dining Out", "Transport", "Utilities", "Other"}

\* categorize with the Snacks keywords tested before the Essentials ones
categorize_snacks_first(name0) ==
    LET name == lower(name0)
    IN  IF AnyIn(SnacksKw, name) THEN "Snacks"
        ELSE IF AnyIn(EssentialsKw, name) THEN "Essentials"
        ELSE IF AnyIn(ClothingKw, name) THEN "Clothing"
        ELSE IF AnyIn(ElectronicsKw, name) THEN "Electronics"
        ELSE IF AnyIn(HealthKw, name) THEN "Health"
        ELSE IF AnyIn(DiningOutKw, name) THEN "Dining Out"
        ELSE IF AnyIn(TransportKw, name) THEN "Transport"
        ELSE IF AnyIn(UtilitiesKw, name) THEN "Utilities"
        ELSE "Other"

categorize(name0) ==
    LET name == lower(name0)
    IN  IF AnyIn(EssentialsKw, name) THEN "Essentials"
        ELSE IF AnyIn(SnacksKw, name) THEN "Snacks"
        ELSE IF AnyIn(ClothingKw, name) THEN "Clothing"
        ELSE IF AnyIn(ElectronicsKw, name) THEN "Electronics"
        ELSE IF AnyIn(HealthKw, name) THEN "Health"
        ELSE IF AnyIn(DiningOutKw, name) THEN "Dining Out"
        ELSE IF AnyIn(TransportKw, name) THEN "Transport"
        ELSE IF AnyIn(UtilitiesKw, name) THEN "Utilities"
        ELSE "Other"

\* ---------------------------------------------------- the line patterns

exclude_words ==
    << <<"g","s","t">>, <<"t","o","t","a","l">>, <<"i","n","v","o","i","c","e">>,
       <<"b","i","l","l">>, <<"p","h","o","n","e">>, <<"c","o","n","t","a","c","t">>,
       <<"c","a","r","e">>, <<"a","m","o","u","n","t">>, <<"t","a","x">>,
       <<"s","u","b","t","o","t","a","l">>, <<"d","i","s","c","o","u","n","t">>, <<"c","h","a","n","g","e">>,
       <<"c","a","s","h">>, <<"c","a","r","d">>, <<"v","i","s","a">>,
       <<"m","a","s","t","e","r","c","a","r","d">>, <<"q","t","y">>, <<"q","u","a","n","t","i","t","y">>,
       <<"r","a","t","e">>, <<"p","r","i","c","e">>, <<"i","t","e","m">>,
       <<"d","e","s","c","r","i","p","t","i","o","n">>, <<"u","n","i","t">> >>

total_keywords ==
    << <<"t","o","t","a","l">>, <<"s","u","m">>, <<"a","m","t">>,
       <<"b","a","l","a","n","c","e">> >>

\* [\d,]+(?:\.\d{1,2})?  matched against the whole of s
IsNumeral(s) ==
    \E n \in 1..Len(s) :
        /\ \A i \in 1..n : IsDigit(s[i]) \/ s[i] = ","
        /\ \/ n = Len(s)
           \/ /\ n + 1 < Len(s)
              /\ Len(s) <= n + 3
              /\ s[n+1] = "."
              /\ \A i \in (n+2)..Len(s) : IsDigit(s[i])

\* [\.:...\s] of the item pattern; the three non-ASCII characters the
\* source file holds in the class are named by their code points
ItemSep(c) == c \in {".", ":", "u00E2", "u201A", "u00B9"} \/ IsSpace(c)

\* [:...] of the total pattern
TotalSep(c) == c \in {":", "u00E2", "u201A", "u00B9"}

\* length of the run of \s characters that starts at s[from]
SpaceRun(s, from) ==
    LET stop == {i \in from..Len(s) : ~IsSpace(s[i])}
    IN  IF stop = {} THEN Len(s) - from + 1
        ELSE (CHOOSE i \in stop : \A j \in stop : i <= j) - from

IsCommaOrSpace(c) == c = "," \/ IsSpace(c)

\* length of the run of [,\s] characters that starts at s[from]
CommaSpaceRun(s, from) ==
    LET stop == {i \in from..Len(s) : ~IsCommaOrSpace(s[i])}
    IN  IF stop = {} THEN Len(s) - from + 1
        ELSE (CHOOSE i \in stop : \A j \in stop : i <= j) - from

\* The ways  \s*[\.:...\s]?[,\s]*([\d,]+(?:\.\d{1,2})?)$  matches the whole of
\* r: <<a, b, c>> are the lengths taken by \s*, by the optional separator and
\* by [,\s]*; the numeral is what is left.
TailMatches(r) ==
    UNION {UNION {{<<a, b, c>> : c \in {x \in 0..CommaSpaceRun(r, a + b + 1) :
                                        /\ a + b + x < Len(r)
                                        /\ IsNumeral(SubSeq(r, a + b + x + 1, Len(r)))}} :
                  b \in {y \in {0, 1} : y = 1 => (a < Len(r) /\ ItemSep(r[a + 1]))}} :
           a \in 0..SpaceRun(r, 1)}

\* the match the backtracking engine finds first: every quantifier of the
\* tail is greedy, so the longest \s*, then the separator taken if it can
\* be, then the longest [,\s]*
FirstTail(r) ==
    CHOOSE m \in TailMatches(r) :
        \A o \in TailMatches(r) :
            \/ m[1] > o[1]
            \/ m[1] = o[1] /\ m[2] > o[2]
            \/ m[1] = o[1] /\ m[2] = o[2] /\ m[3] >= o[3]

\* re.match(r'(.+?)\s*[\.:...\s]?[,\s]*([\d,]+(?:\.\d{1,2})?)$', line):
\* group 1 is lazy, so it is the shortest non-empty prefix after which the
\* tail matches.  [matched, name = group(1).strip(), price_str = group(2)
\* without its commas]
ItemMatch(line) ==
    LET ks == {k \in 1..(Len(line) - 1) :
                  TailMatches(SubSeq(line, k + 1, Len(line))) # {}}
    IN  IF ks = {} THEN [matched |-> FALSE, name |-> <<>>, price_str |-> <<>>]
        ELSE LET k == CHOOSE x \in ks : \A y \in ks : x <= y
                 r == SubSeq(line, k + 1, Len(line))
                 m == FirstTail(r)
             IN  [matched   |-> TRUE,
                  name      |-> strip(SubSeq(line, 1, k)),
                  price_str |-> RemoveCommas(SubSeq(r, m[1] + m[2] + m[3] + 1, Len(r)))]

\* re.search(r'(?:total|sum|amt|balance)\s*[:...]?\s*([\d,]+(?:\.\d{1,2})?)$', l):
\* the leftmost start and the first keyword there after which the rest of l
\* is spaces, an optional separator, spaces and a numeral.  [matched, group(1)]
TotalTailStart(l, e) ==
    LET a == SpaceRun(l, e)
        b == IF e + a <= Len(l) /\ TotalSep(l[e + a]) THEN 1 ELSE 0
        c == SpaceRun(l, e + a + b)
    IN  e + a + b + c

TotalHits(l) ==
    {h \in (1..Len(l)) \X (1..Len(total_keywords)) :
        LET kw == total_keywords[h[2]]
            e  == h[1] + Len(kw)
        IN  /\ e - 1 <= Len(l)
            /\ SubSeq(l, h[1], e - 1) = kw
            /\ IsNumeral(SubSeq(l, TotalTailStart(l, e), Len(l)))}

TotalMatch(l) ==
    IF TotalHits(l) = {} THEN [matched |-> FALSE, group1 |-> <<>>]
    ELSE LET h == CHOOSE x \in TotalHits(l) :
                     \A y \in TotalHits(l) :
                         x[1] < y[1] \/ (x[1] = y[1] /\ x[2] <= y[2])
             e == h[1] + Len(total_keywords[h[2]])
         IN  [matched |-> TRUE,
              group1  |-> SubSeq(l, TotalTailStart(l, e), Len(l))]

\* float(s) for s a numeral without commas, in cents: ValueError (ok = FALSE)
\* when s has no digit before or after the point, which for these patterns
\* is the empty string only
IntOf(s) ==
    LET F[i \in 0..Len(s)] == IF i = 0 THEN 0 ELSE 10 * F[i-1] + DigitVal(s[i])
    IN  F[Len(s)]

float(s) ==
    IF s = <<>> THEN [ok |-> FALSE, value |-> 0]
    ELSE LET dots == {i \in 1..Len(s) : s[i] = "."}
         IN  IF dots = {} THEN [ok |-> TRUE, value |-> 100 * IntOf(s)]
             ELSE LET d    == CHOOSE i \in dots : TRUE
                      frac == SubSeq(s, d + 1, Len(s))
                  IN  [ok    |-> TRUE,
                       value |-> 100 * IntOf(SubSeq(s, 1, d - 1))
                                 + (IF Len(frac) = 1 THEN 10 * IntOf(frac)
                                    ELSE IntOf(frac))]

\* ---------------------------------------------------------- OCR texts

\* ' ': a blank line
L_blank == <<" ">>

\* 'Thank you': free text, no numeral
L_thanks == <<"T","h","a","n","k"," ","y","o","u">>

\* 'Total: 75.00': a stoplist word, then a numeral
L_total == <<"T","o","t","a","l",":"," ","7","5",".","0","0">>

\* 'Milk 45.00': an Essentials item
L_milk == <<"M","i","l","k"," ","4","5",".","0","0">>

\* ' Lays Chips 30 ': a Snacks item, spaces around it
L_lays == <<" ","L","a","y","s"," ","C","h","i","p","s"," ","3","0"," ">>

\* 'usb 1,600.00': an Electronics item, thousands separator
L_usb == <<"u","s","b"," ","1",",","6","0","0",".","0","0">>

\* 'Rice 1180': an Essentials item
L_rice == <<"R","i","c","e"," ","1","1","8","0">>

\* 'sum 1200': a total keyword and a numeral
L_sum == <<"s","u","m"," ","1","2","0","0">>

\* 'balance 5000': a total keyword and a numeral
L_balance == <<"b","a","l","a","n","c","e"," ","5","0","0","0">>

\* 'sum 200000': a total keyword and a numeral above 100000.00
L_sumbig == <<"s","u","m"," ","2","0","0","0","0","0">>

\* 'pen 0.00': a numeral below 0.01
L_pen == <<"p","e","n"," ","0",".","0","0">>

\* 'amt ,': a total keyword and a numeral that float() rejects
L_comma == <<"a","m","t"," ",",">>

Corpus ==
    {L_blank, L_thanks, L_total, L_milk, L_lays, L_usb, L_rice, L_sum,
     L_balance, L_sumbig, L_pen, L_comma}

\* most lines of one OCR text
MaxLines == 3

\* the OCR texts: a text is its sequence of lines (the pieces between '\n')
Texts == UNION {[1..n -> Corpus] : n \in 0..MaxLines}

\* extracted_text.strip().split('\n'): strip() takes the blank lines off both
\* ends, and the leading spaces of the first line left and the trailing
\* spaces of the last; the empty text splits into one empty line
StripSplit(t) ==
    LET keep == {i \in 1..Len(t) : strip(t[i]) # <<>>}
    IN  IF keep = {} THEN << <<>> >>
        ELSE LET a == CHOOSE i \in keep : \A j \in keep : i <= j
                 b == CHOOSE i \in keep : \A j \in keep : j <= i
             IN  [i \in 1..(b - a + 1) |->
                    LET l  == t[a + i - 1]
                        l1 == IF i = 1 THEN lstrip(l) ELSE l
                    IN  IF i = b - a + 1 THEN rstrip(l1) ELSE l1]

\* ------------------------------------------------ the line-parsing loop

MIN_PRICE == 1

MAX_PRICE == 10000000

TOLERANCE == 10000

Abs(x) == IF x < 0 THEN -x ELSE x

\* IsExcluded with the stoplist compared to the line as written, not to
\* line.lower()
IsExcludedCaseSensitive(line) == line = <<>> \/ AnyIn(exclude_words, line)

\* `not line or any(word in line.lower() for word in exclude_words)`,
\* line already stripped
IsExcluded(line) ==
    line = <<>> \/ \E l \in {lower(line)} : AnyIn(exclude_words, l)

\* PriceInRange without its upper limit
PriceInRangeNoMax(price) == MIN_PRICE <= price

\* `0.01 <= price <= 100000.0`
PriceInRange(price) == MIN_PRICE <= price /\ price <= MAX_PRICE

\* category_totals.get(cat, 0.0)
Get(d, k, default) == IF k \in DOMAIN d THEN d[k] ELSE default

\* AddItem with the category's sum replaced by the price, not added to
AddItemOverwrite(st, name, price) ==
    CHOOSE out \in
        {[items |-> Append(st.items, [name |-> name, price |-> price]),
          total |-> st.total + price,
          category_totals |->
              [c \in DOMAIN st.category_totals \cup {cat} |->
                  IF c = cat THEN price
                  ELSE st.category_totals[c]]] :
         cat \in {categorize(name)}} : TRUE

\* `if 0.01 <= price <= 100000.0:` append the item, add to total, add to the
\* category's sum
AddItem(st, name, price) ==
    CHOOSE out \in
        {[items |-> Append(st.items, [name |-> name, price |-> price]),
          total |-> st.total + price,
          category_totals |->
              [c \in DOMAIN st.category_totals \cup {cat} |->
                  IF c = cat THEN Get(st.category_totals, cat, 0) + price
                  ELSE st.category_totals[c]]] :
         cat \in {categorize(name)}} : TRUE

\* the total-line fallback: adopt extracted_total when it is close to the
\* running total, or when the running total is still 0
ReconcileTotal(st, extracted_total) ==
    IF extracted_total > 0 /\ Abs(extracted_total - st.total) < TOLERANCE
    THEN [st EXCEPT !.total = extracted_total]
    ELSE IF st.total = 0 /\ extracted_total > 0
    THEN [st EXCEPT !.total = extracted_total]
    ELSE st

\* `else:` of `if match:`, the line tried against the total pattern
TotalBranch(st, line) ==
    CHOOSE out \in
        {IF total_match.matched
         THEN LET extracted_total == float(RemoveCommas(total_match.group1))
              IN  IF ~extracted_total.ok THEN st
                  ELSE ReconcileTotal(st, extracted_total.value)
         ELSE st :
         total_match \in {TotalMatch(lower(line))}} : TRUE

\* ItemBranch with the total pattern tried before the item pattern
ItemBranchTotalFirst(st, line, match) ==
    IF TotalMatch(lower(line)).matched THEN TotalBranch(st, line)
    ELSE IF match.matched /\ float(match.price_str).ok
            /\ MIN_PRICE <= float(match.price_str).value
            /\ float(match.price_str).value <= MAX_PRICE
    THEN AddItem(st, match.name, float(match.price_str).value)
    ELSE st

\* `if match:`, with match the result of the item pattern on line
ItemBranch(st, line, match) ==
    IF match.matched
    THEN LET price == float(match.price_str)
         IN  IF ~price.ok THEN st
             ELSE IF PriceInRange(price.value)
             THEN AddItem(st, match.name, price.value)
             ELSE st
    ELSE TotalBranch(st, line)

\* one iteration of `for line in lines`, on st = [items, total,
\* category_totals]
LoopBody(st, raw) ==
    CHOOSE out \in
        {IF IsExcluded(line) THEN st
         ELSE CHOOSE o \in {ItemBranch(st, line, match) :
                            match \in {ItemMatch(line)}} : TRUE :
         line \in {strip(raw)}} : TRUE

\* ------------------------------------------------------- the savings tip

\* [i for i in items if categorize(i['name']) == cat]
ItemsOf(its, cat) == {i \in 1..Len(its) : categorize(its[i].name) = cat}

\* savings_tip without the `total == 0` rule
savings_tip_no_zero_rule(its, tot, cats) ==
    IF Get(cats, "Electronics", 0) > 150000 THEN "electronics"
    ELSE IF Cardinality(ItemsOf(its, "Snacks")) >= 3 THEN "snacks_bulk"
    ELSE IF ItemsOf(its, "Essentials") = {} /\ tot > 0 THEN "missing_essentials"
    ELSE IF 0 < tot /\ tot < 50000 THEN "positive_budgeting"
    ELSE IF tot > 250000 THEN "high_spend"
    ELSE "balanced"

\* savings_tip with the high-spend rule tested before the electronics rule
savings_tip_high_spend_first(its, tot, cats) ==
    IF tot = 0 THEN "no_data"
    ELSE IF tot > 250000 THEN "high_spend"
    ELSE IF Get(cats, "Electronics", 0) > 150000 THEN "electronics"
    ELSE IF Cardinality(ItemsOf(its, "Snacks")) >= 3 THEN "snacks_bulk"
    ELSE IF ItemsOf(its, "Essentials") = {} THEN "missing_essentials"
    ELSE IF tot < 50000 THEN "positive_budgeting"
    ELSE "balanced"

savings_tip(its, tot, cats) ==
    LET essentials == ItemsOf(its, "Essentials")
        snacks     == ItemsOf(its, "Snacks")
        electronics_total == Get(cats, "Electronics", 0)
    IN  IF tot = 0 THEN "no_data"
        ELSE IF electronics_total > 150000 THEN "electronics"
        ELSE IF Cardinality(snacks) >= 3 THEN "snacks_bulk"
        ELSE IF essentials = {} /\ tot > 0 THEN "missing_essentials"
        ELSE IF 0 < tot /\ tot < 50000 THEN "positive_budgeting"
        ELSE IF tot > 250000 THEN "high_spend"
        ELSE "balanced"

\* ------------------------------------------- extraction as one function

\* lines 200-247 as a whole: the loop run over the lines of a text
ParseLines(ls) ==
    LET F[i \in 0..Len(ls)] ==
            IF i = 0
            THEN [items |-> <<>>, total |-> 0, category_totals |-> [c \in {} |-> 0]]
            ELSE CHOOSE o \in {LoopBody(prev, ls[i]) : prev \in {F[i-1]}} : TRUE
    IN  F[Len(ls)]

\* lines 200-279: the result built from the OCR text of one request; the
\* request's name stands for its timestamp
BuildResult(r, extracted_text, image_url) ==
    CHOOSE res \in
        {[request   |-> r,
          items     |-> st.items,
          total     |-> st.total,
          category_breakdown |-> st.category_totals,
          savings_tip |-> savings_tip(st.items, st.total, st.category_totals),
          image_url |-> image_url] :
         st \in {ParseLines(StripSplit(extracted_text))}} : TRUE

\* ----------------------------------------------------------- requests

Requests == {"r1", "r2"}

\* file names a client can send
Filenames == {"", "a.png", "../a.png", "b.png"}

\* werkzeug's secure_filename on these names: the path is dropped
secure_filename(f) == IF f = "../a.png" THEN "a.png" ELSE f

SecuredNames == {secure_filename(f) : f \in Filenames} \ {""}

\* what the images of the requests read as
ImageTexts == {<<L_milk>>, <<L_usb, L_total>>}

\* request.files of request r: no 'file' part, or a file name and the image
\* r uploads
NoFilePart == [has_file |-> FALSE]

RequestFiles(r) ==
    {NoFilePart} \cup
    {[has_file |-> TRUE, filename |-> f, image |-> [owner |-> r, text |-> t]] :
        f \in Filenames, t \in ImageTexts}

NoImage == [owner |-> "none", text |-> <<>>]

NoResult == [request |-> "none"]

NoResponse == [status |-> 0]

\* save_result with put_item_ok and append_ok the outcomes of the two
\* writes, should they be attempted: the sinks afterwards, the exceptions
\* raised, and whether save_result returns (ok) or lets one propagate
save_result(use_aws, tbl, db, file, result, put_item_ok, append_ok) ==
    IF use_aws /\ tbl
    THEN IF put_item_ok
         THEN [dynamodb |-> Append(db, result), results_json |-> file,
               raised |-> {}, ok |-> TRUE]
         ELSE IF append_ok
         THEN [dynamodb |-> db, results_json |-> Append(file, result),
               raised |-> {"put_item"}, ok |-> TRUE]
         ELSE [dynamodb |-> db, results_json |-> file,
               raised |-> {"put_item", "append"}, ok |-> FALSE]
    ELSE IF append_ok
         THEN [dynamodb |-> db, results_json |-> Append(file, result),
               raised |-> {}, ok |-> TRUE]
         ELSE [dynamodb |-> db, results_json |-> file,
               raised |-> {"append"}, ok |-> FALSE]

\* ------------------------------------------------------------- state

VARIABLES
    text,             \* extracted_text, as its lines
    lines,            \* lines
    idx,              \* position of `for line in lines`
    items,            \* items
    total,            \* total
    category_totals,  \* category_totals
    tip,              \* tip
    pc,               \* where the parse is: "ocr_done", "loop", "done"
    name_in,          \* the argument of a categorize call
    category_out,     \* what the call returned
    USE_AWS,          \* the module's USE_AWS toggle
    table,            \* whether `table` is set (the DynamoDB table was reached)
    request_files,    \* per request: request.files
    rpc,              \* per request: where upload_image is
    filepath,         \* per request: the secured name under uploads/
    uploads,          \* the uploads folder: name -> image
    temp_img,         \* per request: temp_img.png of its temporary directory
    ocr_calls,        \* per request: calls of image_to_string
    raised,           \* per request: the exceptions raised while handling it
    result,           \* per request: result
    response,         \* per request: what upload_image returned
    results_json,     \* results.json, a record per line
    dynamodb,         \* the items of the DynamoDB table
    dpc,              \* where the dashboard script is: "idle", "read"
    raw_data,         \* the dashboard's raw_data
    chosen            \* the timestamps whose delete button has been pressed

parse_vars == <<text, lines, idx, items, total, category_totals, tip, pc>>

cat_vars == <<name_in, category_out>>

req_vars == <<USE_AWS, table, request_files, rpc, filepath, uploads, temp_img,
              ocr_calls, raised, result, response, results_json, dynamodb>>

dash_vars == <<dpc, raw_data, chosen>>

vars == <<parse_vars, cat_vars, req_vars, dash_vars>>

EmptyDict == [c \in {} |-> 0]

\* no parse under way
ParseIdle ==
    /\ text = <<>> /\ lines = <<>> /\ idx = 0 /\ items = <<>> /\ total = 0
    /\ category_totals = EmptyDict /\ tip = "unset" /\ pc = "idle"

\* no categorize call under way
CatIdle == name_in = <<>> /\ category_out = "unset"

\* no request under way
ReqIdle ==
    /\ USE_AWS = FALSE /\ table = FALSE
    /\ request_files = [r \in Requests |-> NoFilePart]
    /\ rpc = [r \in Requests |-> "idle"]
    /\ filepath = [r \in Requests |-> ""]
    /\ uploads = [f \in SecuredNames |-> NoImage]
    /\ temp_img = [r \in Requests |-> NoImage]
    /\ ocr_calls = [r \in Requests |-> 0]
    /\ raised = [r \in Requests |-> {}]
    /\ result = [r \in Requests |-> NoResult]
    /\ response = [r \in Requests |-> NoResponse]
    /\ results_json = <<>>
    /\ dynamodb = <<>>

\* the dashboard script is not running
DashIdle == dpc = "idle" /\ raw_data = <<>> /\ chosen = {}

\* ---- the parse of one OCR text, line by line

Init ==
    /\ text \in Texts
    /\ lines = <<>>
    /\ idx = 0
    /\ items = <<>>
    /\ total = 0
    /\ category_totals = EmptyDict
    /\ tip = "unset"
    /\ pc = "ocr_done"
    /\ CatIdle
    /\ ReqIdle
    /\ DashIdle

\* lines 200-203
SplitText ==
    /\ pc = "ocr_done"
    /\ lines' = StripSplit(text)
    /\ idx' = 1
    /\ items' = <<>>
    /\ total' = 0
    /\ category_totals' = EmptyDict
    /\ pc' = "loop"
    /\ UNCHANGED <<text, tip, cat_vars, req_vars, dash_vars>>

\* lines 207-247: the next line of the loop
ProcessLine ==
    /\ pc = "loop"
    /\ idx <= Len(lines)
    /\ \E st \in {LoopBody([items |-> items, total |-> total,
                             category_totals |-> category_totals], lines[idx])} :
           /\ items' = st.items
           /\ total' = st.total
           /\ category_totals' = st.category_totals
    /\ idx' = idx + 1
    /\ UNCHANGED <<text, lines, tip, pc, cat_vars, req_vars, dash_vars>>

\* lines 250-269: the loop is over, the tip is chosen
ComputeTip ==
    /\ pc = "loop"
    /\ idx > Len(lines)
    /\ tip' = savings_tip(items, total, category_totals)
    /\ pc' = "done"
    /\ UNCHANGED <<text, lines, idx, items, total, category_totals,
                   cat_vars, req_vars, dash_vars>>

Next == SplitText \/ ProcessLine \/ ComputeTip

Spec == Init /\ [][Next]_vars

\* ---- categorize on its own

\* pieces of item names; a name is up to MaxWords of them, one after another
NameWords ==
    { <<"M","i","l","k">>, <<"S","N","A","C","K">>, <<"s","h","i","r","t">>,
      <<"u","s","b">>, <<"p","i","l","l">>, <<"c","a","f","e">>,
      <<"g","a","s">>, <<"r","e","n","t">>, <<"b","a","r">>,
      <<"c","h">>, <<"i","p","s">> }

MaxWords == 2

RECURSIVE NamesOf(_)
NamesOf(n) ==
    IF n = 0 THEN {<<>>}
    ELSE NamesOf(n - 1) \cup {a \o w : a \in NamesOf(n - 1), w \in NameWords}

InitCat ==
    /\ name_in \in NamesOf(MaxWords)
    /\ category_out = "unset"
    /\ ParseIdle
    /\ ReqIdle
    /\ DashIdle

\* lines 89-108: the call returns
Categorize ==
    /\ category_out = "unset"
    /\ category_out' = categorize(name_in)
    /\ UNCHANGED <<name_in, parse_vars, req_vars, dash_vars>>

NextCat == Categorize

SpecCat == InitCat /\ [][NextCat]_vars

\* ---- two requests to /upload

InitReq ==
    /\ USE_AWS \in BOOLEAN
    /\ table \in BOOLEAN
    /\ table => USE_AWS
    /\ request_files \in [Requests -> UNION {RequestFiles(r) : r \in Requests}]
    /\ \A r \in Requests : request_files[r] \in RequestFiles(r)
    /\ rpc = [r \in Requests |-> "start"]
    /\ filepath = [r \in Requests |-> ""]
    /\ uploads = [f \in SecuredNames |-> NoImage]
    /\ temp_img = [r \in Requests |-> NoImage]
    /\ ocr_calls = [r \in Requests |-> 0]
    /\ raised = [r \in Requests |-> {}]
    /\ result = [r \in Requests |-> NoResult]
    /\ response = [r \in Requests |-> NoResponse]
    /\ results_json = <<>>
    /\ dynamodb = <<>>
    /\ ParseIdle
    /\ CatIdle
    /\ DashIdle

\* upload_image returns an error response
Fail(r, status, exc) ==
    /\ response' = [response EXCEPT ![r] = [status |-> status]]
    /\ raised' = [raised EXCEPT ![r] = @ \cup exc]
    /\ rpc' = [rpc EXCEPT ![r] = "done"]

\* lines 158-175: the request is checked and its file saved under uploads/
ReceiveFile(r) ==
    /\ rpc[r] = "start"
    /\ IF ~request_files[r].has_file \/ request_files[r].filename = ""
       THEN /\ Fail(r, 400, {})
            /\ UNCHANGED <<filepath, uploads>>
       ELSE \E save_ok \in BOOLEAN :
                IF save_ok
                THEN /\ filepath' = [filepath EXCEPT ![r] =
                                        secure_filename(request_files[r].filename)]
                     /\ uploads' = [uploads EXCEPT
                                       ![secure_filename(request_files[r].filename)] =
                                           request_files[r].image]
                     /\ rpc' = [rpc EXCEPT ![r] = "saved"]
                     /\ UNCHANGED <<response, raised>>
                ELSE /\ Fail(r, 500, {"save"})
                     /\ UNCHANGED <<filepath, uploads>>
    /\ UNCHANGED <<USE_AWS, table, request_files, temp_img, ocr_calls, result,
                   results_json, dynamodb, parse_vars, cat_vars, dash_vars>>

\* lines 177-183: the saved file is copied into the request's temporary
\* directory
CopyToTemp(r) ==
    /\ rpc[r] = "saved"
    /\ temp_img' = [temp_img EXCEPT ![r] = uploads[filepath[r]]]
    /\ rpc' = [rpc EXCEPT ![r] = "copied"]
    /\ UNCHANGED <<USE_AWS, table, request_files, filepath, uploads, ocr_calls,
                   raised, result, response, results_json, dynamodb,
                   parse_vars, cat_vars, dash_vars>>

\* lines 187-279: the copy is preprocessed and read by OCR, and the text
\* parsed into the result
RunOcr(r) ==
    /\ rpc[r] = "copied"
    /\ ocr_calls' = [ocr_calls EXCEPT ![r] = @ + 1]
    /\ result' = [result EXCEPT ![r] =
                     BuildResult(r, temp_img[r].text, filepath[r])]
    /\ rpc' = [rpc EXCEPT ![r] = "built"]
    /\ UNCHANGED <<USE_AWS, table, request_files, filepath, uploads, temp_img,
                   raised, response, results_json, dynamodb,
                   parse_vars, cat_vars, dash_vars>>

\* OcrRaises with the call tried again instead of the request failed
OcrRaisesRetry(r) ==
    /\ rpc[r] = "copied"
    /\ ocr_calls[r] < 2
    /\ ocr_calls' = [ocr_calls EXCEPT ![r] = @ + 1]
    /\ raised' = [raised EXCEPT ![r] = @ \cup {"ocr"}]
    /\ UNCHANGED <<USE_AWS, table, request_files, rpc, filepath, uploads,
                   temp_img, result, response, results_json, dynamodb,
                   parse_vars, cat_vars, dash_vars>>

\* lines 197, 285-293: image_to_string raises and the handler answers 500
OcrRaises(r) ==
    /\ rpc[r] = "copied"
    /\ ocr_calls' = [ocr_calls EXCEPT ![r] = @ + 1]
    /\ Fail(r, 500, {"ocr"})
    /\ UNCHANGED <<USE_AWS, table, request_files, filepath, uploads, temp_img,
                   result, results_json, dynamodb, parse_vars, cat_vars, dash_vars>>

\* lines 281-293: save_result(result), then the result is returned, or the
\* exception save_result let through is answered with 500
SaveAndRespond(r) ==
    /\ rpc[r] = "built"
    /\ \E put_item_ok \in BOOLEAN, append_ok \in BOOLEAN :
         \E s \in {save_result(USE_AWS, table, dynamodb, results_json,
                               result[r], put_item_ok, append_ok)} :
            /\ dynamodb' = s.dynamodb
            /\ results_json' = s.results_json
            /\ raised' = [raised EXCEPT ![r] = @ \cup s.raised]
            /\ response' = [response EXCEPT ![r] =
                               IF s.ok THEN [status |-> 200, body |-> result[r]]
                               ELSE [status |-> 500]]
    /\ rpc' = [rpc EXCEPT ![r] = "done"]
    /\ UNCHANGED <<USE_AWS, table, request_files, filepath, uploads, temp_img,
                   ocr_calls, result, parse_vars, cat_vars, dash_vars>>

NextReq ==
    \E r \in Requests :
        \/ ReceiveFile(r)
        \/ CopyToTemp(r)
        \/ RunOcr(r)
        \/ OcrRaises(r)
        \/ SaveAndRespond(r)

SpecReq == InitReq /\ [][NextReq]_vars

\* ---- the dashboard's receipt list and delete button, beside the requests

\* dashboard.py's own USE_AWS
DashboardUseAws == FALSE

\* the entries of raw_data shown with a delete button: the first entry of
\* each image_url.  Every image_url the backend writes starts with "http",
\* and the file names here are lowercase without spaces around, as
\* strip().lower() leaves them.
Clickable ==
    {i \in 1..Len(raw_data) :
        \A j \in 1..(i - 1) : raw_data[j].image_url # raw_data[i].image_url}

\* new_data: raw_data without the entries of a timestamp
WithoutTimestamp(data, ts) ==
    LET Keep(e) == e.request # ts IN SelectSeq(data, Keep)

\* dashboard.py 85-87: the script reads all of results.json
DashRead ==
    /\ ~DashboardUseAws
    /\ dpc = "idle"
    /\ raw_data' = results_json
    /\ dpc' = "read"
    /\ UNCHANGED <<chosen, USE_AWS, table, request_files, rpc, filepath,
                   uploads, temp_img, ocr_calls, raised, result, response,
                   results_json, dynamodb, parse_vars, cat_vars>>

\* dashboard.py 91-114: the delete button of a shown entry is pressed, the
\* file is rewritten from raw_data without that timestamp, the script reruns
DashDelete ==
    /\ dpc = "read"
    /\ \E i \in Clickable :
          /\ chosen' = chosen \cup {raw_data[i].request}
          /\ results_json' = WithoutTimestamp(raw_data, raw_data[i].request)
    /\ raw_data' = <<>>
    /\ dpc' = "idle"
    /\ UNCHANGED <<USE_AWS, table, request_files, rpc, filepath,
                   uploads, temp_img, ocr_calls, raised, result, response,
                   dynamodb, parse_vars, cat_vars>>

\* dashboard.py 91-118: the script ends with no button pressed
DashFinish ==
    /\ dpc = "read"
    /\ raw_data' = <<>>
    /\ dpc' = "idle"
    /\ UNCHANGED <<chosen, USE_AWS, table, request_files, rpc, filepath,
                   uploads, temp_img, ocr_calls, raised, result, response,
                   results_json, dynamodb, parse_vars, cat_vars>>

NextDash == NextReq \/ DashRead \/ DashDelete \/ DashFinish

SpecDash == InitReq /\ [][NextDash]_vars

\* ------------------------------------------------------------ properties

\* sum of the prices of a list of items
SumPrices(its) ==
    LET F[i \in 0..Len(its)] == IF i = 0 THEN 0 ELSE F[i-1] + its[i].price
    IN  F[Len(its)]

\* the loop is about to process lines[idx]
AtLine == pc = "loop" /\ idx <= Len(lines)

\* the value of a total line: a line outside the stoplist that ends in a
\* keyword total, sum, amt or balance and a numeral; -1 when the line is none
ClaimedTotal(raw) ==
    LET line == strip(raw)
        tm   == TotalMatch(lower(line))
    IN  IF ~IsExcluded(line) /\ tm.matched /\ float(RemoveCommas(tm.group1)).ok
        THEN float(RemoveCommas(tm.group1)).value
        ELSE -1

\* C1: when parsing has finished, total is the sum of the prices of the
\* recorded items, or the value of a total line of the text; it is
\* never anything else (such as an adopted value plus later item prices).
C1_TotalIsSumOrTotalLine ==
    pc = "done" =>
        \/ total = SumPrices(items)
        \/ \E i \in 1..Len(lines) :
               ClaimedTotal(lines[i]) > 0 /\ total = ClaimedTotal(lines[i])

\* a finished parse in which an item line came after a total-keyword line
C1_Witness ==
    pc = "done" /\ lines = <<L_sum, L_milk>> /\ Len(items) = 2 /\ total = 124500

\* the item pattern matches the line and its numeral is malformed or out of
\* [0.01, 100000.00]
BadNumeral(raw) ==
    LET match == ItemMatch(strip(raw))
        price == float(match.price_str)
    IN  /\ match.matched
        /\ ~price.ok \/ price.value < MIN_PRICE \/ price.value > MAX_PRICE

C3_Reconciliation ==
    [][(AtLine /\ ClaimedTotal(lines[idx]) > 0) =>
          total' = IF \/ Abs(ClaimedTotal(lines[idx]) - total) < TOLERANCE
                      \/ items = <<>>
                   THEN ClaimedTotal(lines[idx])
                   ELSE total]_vars

\* C4: a line whose lowercased text contains a stoplist keyword leaves items,
\* total and the category breakdown unchanged, whatever it ends in.
C4_StoplistIsNoise ==
    [][(AtLine /\ AnyIn(exclude_words, lower(lines[idx])))
          => UNCHANGED <<items, total, category_totals>>]_vars

\* the stoplist line "Total: 75.00", which ends in a numeral, has just been
\* processed after an item
C4_Witness ==
    /\ pc = "loop" /\ idx = 3 /\ lines = <<L_milk, L_total>>
    /\ Len(items) = 1 /\ total = 4500

\* the line is empty, holds a stoplist keyword, or matches neither pattern
NoiseLine(raw) ==
    LET line == strip(raw)
    IN  \/ line = <<>>
        \/ AnyIn(exclude_words, lower(line))
        \/ ~ItemMatch(line).matched /\ ~TotalMatch(lower(line)).matched

\* C5: a text of noise lines only yields no item, total 0, an empty breakdown
\* and the no-data tip.
C5_NoiseOnly ==
    pc = "done" =>
        \/ items = <<>> /\ total = 0 /\ category_totals = EmptyDict
                        /\ tip = "no_data"
        \/ \E i \in 1..Len(lines) : ~NoiseLine(lines[i])

\* a finished parse of a stoplist line and a free-text line
C5_Witness ==
    pc = "done" /\ lines = <<L_total, L_thanks>> /\ tip = "no_data"

\* number of items categorised cat
CountOf(its, cat) ==
    Cardinality({i \in 1..Len(its) : categorize(its[i].name) = cat})

\* the conditions of the six tip rules, in their order, on the final values
TipRuleHolds(n) ==
    CASE n = 1 -> total = 0
      [] n = 2 -> Get(category_totals, "Electronics", 0) > 150000
      [] n = 3 -> CountOf(items, "Snacks") >= 3
      [] n = 4 -> CountOf(items, "Essentials") = 0 /\ total > 0
      [] n = 5 -> 0 < total /\ total < 50000
      [] n = 6 -> total > 250000

TipOfRule ==
    <<"no_data", "electronics", "snacks_bulk", "missing_essentials",
      "positive_budgeting", "high_spend">>

\* C6: the tip of a result is the tip of the first rule that holds, in the
\* fixed order; it is the balanced tip only when none holds.
C6_TipPriority ==
    pc = "done" =>
        /\ \A n \in 1..6 :
               (TipRuleHolds(n) /\ \A m \in 1..(n - 1) : ~TipRuleHolds(m))
                   => tip = TipOfRule[n]
        /\ (\A n \in 1..6 : ~TipRuleHolds(n)) => tip = "balanced"

\* the electronics tip given although the high-spend rule holds too
C6_Witness ==
    /\ pc = "done" /\ tip = "electronics" /\ total > 250000
    /\ CountOf(items, "Essentials") > 0

\* the categories in the order categorize is to try them, and their keywords
CategoryOrder ==
    <<"Essentials", "Snacks", "Clothing", "Electronics", "Health",
      "Dining Out", "Transport", "Utilities">>

KeywordLists ==
    <<EssentialsKw, SnacksKw, ClothingKw, ElectronicsKw, HealthKw,
      DiningOutKw, TransportKw, UtilitiesKw>>

\* a keyword of the n-th category is a substring of the lowercased name
HasKeyword(n, name) == AnyIn(KeywordLists[n], lower(name))

\* C7: categorize returns one label of the closed set: the first category, in
\* the fixed order, with a keyword in the lowercased name, and Other exactly
\* when no category has one.
C7_Categorize ==
    category_out # "unset" =>
        /\ category_out \in Categories
        /\ \A n \in 1..8 :
               (HasKeyword(n, name_in) /\ \A m \in 1..(n - 1) : ~HasKeyword(m, name_in))
                   => category_out = CategoryOrder[n]
        /\ category_out = "Other" <=> \A n \in 1..8 : ~HasKeyword(n, name_in)

\* a name with an Essentials and a Snacks keyword has been categorized
C7_Witness ==
    /\ name_in = <<"M","i","l","k","S","N","A","C","K">>
    /\ category_out = "Essentials"

\* the records a request has in either sink
SavedRecords(r) ==
    {i \in 1..Len(results_json) : results_json[i].request = r}
        \cup {Len(results_json) + i : i \in {j \in 1..Len(dynamodb) : dynamodb[j].request = r}}

\* the write to the configured sink raised while request r was handled
ConfiguredSinkRaised(r) ==
    IF USE_AWS /\ table THEN "put_item" \in raised[r] ELSE "append" \in raised[r]

\* C8: when the write to the configured sink raises, the result is saved to
\* another sink and the request is still answered with the result.
C8_PersistenceNeverFails ==
    \A r \in Requests :
        (rpc[r] = "done" /\ ConfiguredSinkRaised(r)) =>
            /\ response[r].status = 200
            /\ SavedRecords(r) # {}

\* C9: when the OCR call raises, the request is answered with an error after
\* exactly one OCR call, and no record of it is in a sink.
C9_OcrFailure ==
    \A r \in Requests :
        "ocr" \in raised[r] =>
            /\ rpc[r] = "done"
            /\ response[r].status = 500
            /\ ocr_calls[r] = 1
            /\ SavedRecords(r) = {}

\* OCR raised for one request while the other one was processed and saved
C9_Witness ==
    /\ "ocr" \in raised["r1"] /\ rpc["r1"] = "done"
    /\ rpc["r2"] = "done" /\ response["r2"].status = 200
    /\ Len(results_json) = 1

\* C10: the image a request copies, preprocesses and hands to OCR is the
\* image that request uploaded.
C10_OwnImage ==
    \A r \in Requests :
        rpc[r] \in {"copied", "built", "done"} /\ temp_img[r] # NoImage
            => temp_img[r] = request_files[r].image

\* C11: a line that matches the item pattern with a malformed or out-of-range
\* numeral is then tried against the total pattern: when it carries a total
\* keyword and a value V > 0, the total becomes V if V is within the tolerance
\* of the running total or no item has been parsed yet.
C11_BadNumeralFallsThrough ==
    [][(AtLine /\ BadNumeral(lines[idx]) /\ ClaimedTotal(lines[idx]) > 0) =>
          \A V \in {ClaimedTotal(lines[idx])} :
              (Abs(V - total) < TOLERANCE \/ items = <<>>) => total' = V]_vars

\* sum of the prices of the items categorised cat
SumOfCategory(its, cat) ==
    LET F[i \in 0..Len(its)] ==
            IF i = 0 THEN 0
            ELSE IF categorize(its[i].name) = cat THEN F[i-1] + its[i].price
            ELSE F[i-1]
    IN  F[Len(its)]

\* sum of the values of a breakdown
SumValues(d) ==
    LET RECURSIVE S(_)
        S(ks) == IF ks = {} THEN 0
                 ELSE LET k == CHOOSE x \in ks : TRUE IN d[k] + S(ks \ {k})
    IN  S(DOMAIN d)

\* the breakdown d is the one of the items its
BreakdownOf(its, d) ==
    /\ DOMAIN d = {categorize(its[i].name) : i \in 1..Len(its)}
    /\ \A c \in DOMAIN d : d[c] = SumOfCategory(its, c)
    /\ SumValues(d) = SumPrices(its)

Appended(r) ==
    /\ rpc[r] = "done" /\ response[r].status = 200
    /\ ~(USE_AWS /\ table) \/ "put_item" \in raised[r]

\* the records of a file, and the place of one of them
RecordsOf(file) == {file[i] : i \in 1..Len(file)}

PlaceOf(file, rec) == CHOOSE i \in 1..Len(file) : file[i] = rec

\* C13: a record that was appended to results.json and whose timestamp has not
\* been chosen for deletion is in results.json, whatever the interleaving of
\* the requests with the dashboard's reads and rewrites; and the records a
\* step keeps stay in their relative order.
C13_NoLostRecord ==
    [][/\ \A r \in Requests :
              (Appended(r)' /\ r \notin chosen')
                  => result'[r] \in RecordsOf(results_json')
       /\ \A x, y \in RecordsOf(results_json) \cap RecordsOf(results_json') :
              PlaceOf(results_json, x) < PlaceOf(results_json, y)
                  => PlaceOf(results_json', x) < PlaceOf(results_json', y)]_vars

====
